---- MODULE Spec2Model ----
(***************************************************************************)
(* A model of PDFLingo's translation pipeline (src/App.tsx): the font      *)
(* mapping getFont and the asynchronous handler handleTranslate with its   *)
(* colour sampling, batch join/split, font fitting and drawing loop.       *)
(*                                                                         *)
(* Conventions.                                                            *)
(*  - A JavaScript string is a sequence of one-character strings, so that  *)
(*    join, split, trim, toLowerCase and includes are computed character   *)
(*    by character.                                                        *)
(*  - A JavaScript number that may be fractional is an exact rational      *)
(*    <<num, den>> with den > 0, kept in lowest terms.  IEEE rounding is   *)
(*    not modelled: sizes are the real-number values of the expressions.   *)
(*  - An action of the handler is the resolution of one awaited promise    *)
(*    together with all the synchronous code that runs up to the next      *)
(*    await; pc names the promise the handler is suspended on.             *)
(***************************************************************************)
EXTENDS Integers, Sequences, FiniteSets, TLC

VARIABLES
    \* React state of the App component (src/App.tsx:59-68)
    pdfFile, translatedPdfBytes, status, progressMessage, view, anonymize,
    \* locals of one handleTranslate invocation (src/App.tsx:112-288); they keep
    \* their last values when the invocation has ended
    pc, totalPages, i, newPdfDoc, newPage, embeddedFonts, textContent,
    itemsWithStyle, textToTranslate, translatedTexts, currentTranslatedIndex,
    itemIdx, ops,
    \* what this invocation has met and asked of its collaborators so far
    pageLog, providerLog, embedLog, eventLog,
    \* argument and result of a pure function applied on its own
    input, output

appVars == <<pdfFile, translatedPdfBytes, status, progressMessage, view, anonymize,
             pc, totalPages, i, newPdfDoc, newPage, embeddedFonts, textContent,
             itemsWithStyle, textToTranslate, translatedTexts,
             currentTranslatedIndex, itemIdx, ops, pageLog, providerLog, embedLog,
             eventLog>>

vars == <<appVars, input, output>>

\* The component as constructed (useState initial values), no invocation of
\* handleTranslate under way.
AppIdle ==
    /\ pdfFile = FALSE /\ translatedPdfBytes = FALSE /\ status = <<"null">>
    /\ progressMessage = <<"">> /\ view = "upload" /\ anonymize = TRUE
    /\ pc = "idle" /\ totalPages = 0 /\ i = 0 /\ newPdfDoc = <<>> /\ newPage = 0
    /\ embeddedFonts = <<>> /\ textContent = <<>> /\ itemsWithStyle = <<>>
    /\ textToTranslate = <<>> /\ translatedTexts = <<>>
    /\ currentTranslatedIndex = 0 /\ itemIdx = 0 /\ ops = <<>>
    /\ pageLog = <<>> /\ providerLog = <<>> /\ embedLog = <<>> /\ eventLog = <<>>

----------------------------------------------------------------------------
(* Bounds of the model *)

MaxChars == 5        \* characters in all the texts of a batch together
MaxTexts == 2        \* texts in a batch
MaxFitHeight == 12   \* largest run height tried by the fit, in size units
MaxFitWidth == 5     \* largest small run width tried by the fit
MaxFitTextWidth == 8 \* largest small measured width tried by the fit
MaxFontFragments == 3 \* name fragments in a font name
CanvasCols == 4      \* width of a sampled canvas, in pixels
CanvasRows == 2      \* height of a sampled canvas, in pixels
MaxPages == 2        \* pages of a document
MaxItems == 2        \* text items on a page
MaxSegments == 3     \* sentinel-separated segments in a provider response
PageWidth == 24      \* width of a page, in page units
PageHeight == 24     \* height of a page, in page units

----------------------------------------------------------------------------
(* Strings *)

Sentinel == <<" ", "|", "|", "|", " ">>

\* All strings over alphabet of length at most n.
StringsUpTo(alphabet, n) == UNION { [1..k -> alphabet] : k \in 0..n }

\* String.prototype.indexOf, 1-based; 0 when sep does not occur in s.
IndexOf(s, sep) ==
    LET starts == { p \in 1..(Len(s) - Len(sep) + 1) :
                        SubSeq(s, p, p + Len(sep) - 1) = sep }
    IN  IF starts = {} THEN 0
        ELSE CHOOSE p \in starts : \A q \in starts : p <= q

\* String.prototype.includes
Includes(s, sub) == IndexOf(s, sub) # 0

\* Array.prototype.join: the texts with sep between neighbours.
RECURSIVE Join(_, _)
Join(texts, sep) ==
    IF Len(texts) = 0 THEN <<>>
    ELSE IF Len(texts) = 1 THEN texts[1]
    ELSE texts[1] \o sep \o Join(Tail(texts), sep)

\* A plausible slip: the separator typed without its trailing space.
JoinSentinelTight(texts) == Join(texts, SubSeq(Sentinel, 1, Len(Sentinel) - 1))

\* textsToProcess.join(' ||| ')
JoinSentinel(texts) == Join(texts, Sentinel)

\* String.prototype.split with a non-empty separator: cut at the leftmost
\* occurrence, then split what follows it.
RECURSIVE Split(_, _)
Split(s, sep) ==
    LET p == IndexOf(s, sep)
    IN  IF p = 0 THEN <<s>>
        ELSE <<SubSeq(s, 1, p - 1)>> \o Split(SubSeq(s, p + Len(sep), Len(s)), sep)

\* translatedFullText.split(' ||| ')
SplitSentinel(s) == Split(s, Sentinel)

\* str.trim().length === 0: every character is white space.
Whitespace == {" "}
IsBlank(s) == \A k \in 1..Len(s) : s[k] \in Whitespace

----------------------------------------------------------------------------
(* The batch protocol on its own: join a batch, split the joined string. *)

BatchAlphabet == {" ", "|", "a"}

\* The n texts that the cut positions c[1] <= ... <= c[n-1] make of the string s.
CutAt(s, c, n) ==
    [k \in 1..n |->
        SubSeq(s, (IF k = 1 THEN 0 ELSE c[k - 1]) + 1,
                  IF k = n THEN Len(s) ELSE c[k])]

Cuts(len, n) ==
    { c \in [1..(n - 1) -> 0..len] : \A k \in 1..(n - 2) : c[k] <= c[k + 1] }

\* The input is any batch of 1..MaxTexts texts over the alphabet with at most
\* MaxChars characters in all.
BatchInit ==
    /\ AppIdle
    /\ \E s \in StringsUpTo(BatchAlphabet, MaxChars), n \in 1..MaxTexts :
          \E c \in Cuts(Len(s), n) : input = CutAt(s, c, n)
    /\ output = <<"pending">>

BatchJoin ==
    /\ output = <<"pending">>
    /\ output' = <<"joined", JoinSentinel(input)>>
    /\ UNCHANGED <<appVars, input>>

BatchSplit ==
    /\ output[1] = "joined"
    /\ output' = <<"split", SplitSentinel(output[2])>>
    /\ UNCHANGED <<appVars, input>>

BatchNext == BatchJoin \/ BatchSplit

SpecBatch == BatchInit /\ [][BatchNext]_vars

NoSentinelInside(texts) == \A k \in 1..Len(texts) : ~Includes(texts[k], Sentinel)

\* The sentinel without its last character: a text ending in it, followed by
\* the sentinel, shows an occurrence of the sentinel one text too early.
SentinelHead == SubSeq(Sentinel, 1, Len(Sentinel) - 1)
EndsWith(s, suffix) ==
    /\ Len(s) >= Len(suffix)
    /\ SubSeq(s, Len(s) - Len(suffix) + 1, Len(s)) = suffix

\* C3 as stated: every batch whose texts do not contain the sentinel comes back
\* from join-then-split unchanged.
C3_RoundTripAsStated ==
    (output[1] = "split" /\ NoSentinelInside(input)) => output[2] = input

\* C3, amended: every non-empty batch in which no text contains the sentinel and
\* no text but the last ends with " |||" (the sentinel without its last space)
\* comes back from join-then-split unchanged: same length, same text at every
\* index.
C3_RoundTrip ==
    (/\ output[1] = "split"
     /\ NoSentinelInside(input)
     /\ \A k \in 1..(Len(input) - 1) : ~EndsWith(input[k], SentinelHead))
        => output[2] = input

\* C3's case: a batch of two texts that begin and end with spaces or bars has
\* been joined and split.
C3_Witness ==
    /\ output[1] = "split"
    /\ Len(input) = 2
    /\ input[1] = <<"|", " ">>
    /\ input[2] = <<" ", "|", "|">>
    /\ output[2] = input

----------------------------------------------------------------------------
(* Numbers: exact rationals <<num, den>>, den > 0, in lowest terms *)

Abs(n) == IF n < 0 THEN -n ELSE n

RECURSIVE GCD(_, _)
GCD(a, b) == IF b = 0 THEN a ELSE GCD(b, a % b)

Rat(n, d) ==
    LET g == GCD(Abs(n), d)
    IN  <<n \div g, d \div g>>

RatLT(a, b) == a[1] * b[2] < b[1] * a[2]
RatLE(a, b) == a[1] * b[2] <= b[1] * a[2]
RatMul(a, b) == Rat(a[1] * b[1], a[2] * b[2])
\* a / b for b > 0
RatDiv(a, b) == Rat(a[1] * b[2], a[2] * b[1])
\* Math.max
RatMax(a, b) == IF RatLT(a, b) THEN b ELSE a

----------------------------------------------------------------------------
(* Font fitting (src/App.tsx:249-261) *)

MinFontSize == 4

\* The 0.95 of line 257.
Padding == Rat(95, 100)

\* A plausible slip: the scaling applied whenever the width is positive, also
\* to a text narrower than the run, which then grows.
FitSizeAlwaysScale(originalSize, originalWidth, textWidth) ==
    LET newSize ==
            IF RatLT(<<0, 1>>, textWidth) /\ RatLT(<<0, 1>>, originalWidth)
            THEN RatMul(RatMul(originalSize, RatDiv(originalWidth, textWidth)), Padding)
            ELSE originalSize
    IN  RatMax(newSize, <<MinFontSize, 1>>)

\* A plausible slip: the padding factor left out.
FitSizeNoPadding(originalSize, originalWidth, textWidth) ==
    LET newSize ==
            IF RatLT(originalWidth, textWidth) /\ RatLT(<<0, 1>>, originalWidth)
            THEN RatMul(originalSize, RatDiv(originalWidth, textWidth))
            ELSE originalSize
    IN  RatMax(newSize, <<MinFontSize, 1>>)

\* newSize of lines 252-261, given textWidth = font.widthOfTextAtSize(text,
\* originalSize).
FitSize(originalSize, originalWidth, textWidth) ==
    LET newSize ==
            IF RatLT(originalWidth, textWidth) /\ RatLT(<<0, 1>>, originalWidth)
            THEN RatMul(RatMul(originalSize, RatDiv(originalWidth, textWidth)), Padding)
            ELSE originalSize
    IN  RatMax(newSize, <<MinFontSize, 1>>)

----------------------------------------------------------------------------
(* The fit on its own: a run's height and width and a measured text width. *)

\* Heights in half units, 1/2 .. MaxFitHeight; widths and measured widths in
\* whole units, with the values of the documented examples added.
FitHeights == { Rat(k, 2) : k \in 1..(2 * MaxFitHeight) }
FitWidths == { <<w, 1>> : w \in (0..MaxFitWidth) \cup {100} }
FitTextWidths == { <<w, 1>> : w \in (0..MaxFitTextWidth) \cup {40, 150} }

FitInit ==
    /\ AppIdle
    /\ input \in [originalSize : FitHeights, originalWidth : FitWidths,
                  textWidth : FitTextWidths]
    /\ output = <<"pending">>

FitApply ==
    /\ output = <<"pending">>
    /\ output' = <<"fitted",
                   FitSize(input.originalSize, input.originalWidth, input.textWidth)>>
    /\ UNCHANGED <<appVars, input>>

FitNext == FitApply

SpecFit == FitInit /\ [][FitNext]_vars

\* C4 as stated: the fitted size never exceeds the run's height.
C4_SizeAtMostHeightAsStated ==
    output[1] = "fitted" => RatLE(output[2], input.originalSize)

\* C4, amended: the fitted size never exceeds the run's height when that height
\* is at least the floor of 4, and is exactly 4 when the height is below 4.
C4_SizeAtMostHeight ==
    output[1] = "fitted" =>
        IF RatLE(<<4, 1>>, input.originalSize)
        THEN RatLE(output[2], input.originalSize)
        ELSE output[2] = <<4, 1>>

\* C4's case: a text narrower than its run, of height above the floor, has been
\* fitted and keeps the run's height.
C4_Witness ==
    /\ output[1] = "fitted"
    /\ input.originalSize = <<12, 1>>
    /\ input.originalWidth = <<100, 1>>
    /\ input.textWidth = <<40, 1>>
    /\ output[2] = <<12, 1>>

\* C5: the fitted size is max(4, s), where s = height * (width / measured) * 0.95
\* when measured > width and width > 0 and s = height otherwise; so width 100,
\* height 12 gives 7.6 for measured 150 and 12 for measured 40, a run of width 0
\* is never scaled down, and the result is never below 4.
C5_FitFormula ==
    output[1] = "fitted" =>
        LET h == input.originalSize
            w == input.originalWidth[1]
            m == input.textWidth[1]
            r == output[2]
            scales == m > w /\ w > 0
            \* s = sn / sd
            sn == IF scales THEN h[1] * w * 95 ELSE h[1]
            sd == IF scales THEN h[2] * m * 100 ELSE h[2]
        IN  /\ IF sn >= 4 * sd THEN r[1] * sd = sn * r[2] ELSE r = <<4, 1>>
            /\ r[1] >= 4 * r[2]
            /\ (w = 0 /\ h[1] >= 4 * h[2]) => r = h
            /\ (h = <<12, 1>> /\ w = 100 /\ m = 150) => r = <<38, 5>>
            /\ (h = <<12, 1>> /\ w = 100 /\ m = 40) => r = <<12, 1>>

\* C5's case: the documented example, width 100, height 12, measured 150, has
\* been fitted to 7.6.
C5_Witness ==
    /\ output[1] = "fitted"
    /\ input = [originalSize |-> <<12, 1>>, originalWidth |-> <<100, 1>>,
                textWidth |-> <<150, 1>>]
    /\ output[2] = <<38, 5>>

----------------------------------------------------------------------------
(* Font mapping (src/App.tsx:22-54) *)

UpperCase == <<"A", "B", "C", "D", "E", "F", "G", "H", "I", "J", "K", "L", "M", "N", "O", "P", "Q", "R", "S", "T", "U", "V", "W", "X", "Y", "Z">>
LowerCase == <<"a", "b", "c", "d", "e", "f", "g", "h", "i", "j", "k", "l", "m", "n", "o", "p", "q", "r", "s", "t", "u", "v", "w", "x", "y", "z">>

\* String.prototype.toLowerCase, character by character.
ToLowerChar(c) ==
    IF \E k \in 1..Len(UpperCase) : UpperCase[k] = c
    THEN LowerCase[CHOOSE k \in 1..Len(UpperCase) : UpperCase[k] = c]
    ELSE c
ToLowerCase(s) == [k \in 1..Len(s) |-> ToLowerChar(s[k])]

\* A plausible slip: "courier" tested before "times".
getFontCourierFirst(fontName) ==
    LET lower == ToLowerCase(fontName)
        isBold == Includes(lower, <<"b", "o", "l", "d">>)
        isItalic == Includes(lower, <<"i", "t", "a", "l", "i", "c">>) \/ Includes(lower, <<"o", "b", "l", "i", "q", "u", "e">>)
        baseFont == IF Includes(lower, <<"c", "o", "u", "r", "i", "e", "r">>) THEN "Courier"
                    ELSE IF Includes(lower, <<"t", "i", "m", "e", "s">>) THEN "TimesRoman"
                    ELSE "Helvetica"
    IN  IF isBold /\ isItalic THEN
            IF baseFont = "TimesRoman" THEN "TimesRomanBoldItalic"
            ELSE IF baseFont = "Courier" THEN "CourierBoldOblique"
            ELSE "HelveticaBoldOblique"
        ELSE IF isBold THEN
            IF baseFont = "TimesRoman" THEN "TimesRomanBold"
            ELSE IF baseFont = "Courier" THEN "CourierBold"
            ELSE "HelveticaBold"
        ELSE IF isItalic THEN
            IF baseFont = "TimesRoman" THEN "TimesRomanItalic"
            ELSE IF baseFont = "Courier" THEN "CourierOblique"
            ELSE "HelveticaOblique"
        ELSE baseFont

\* getFont; the result is the name of the StandardFonts member returned.
getFont(fontName) ==
    LET lower == ToLowerCase(fontName)
        isBold == Includes(lower, <<"b", "o", "l", "d">>)
        isItalic == Includes(lower, <<"i", "t", "a", "l", "i", "c">>) \/ Includes(lower, <<"o", "b", "l", "i", "q", "u", "e">>)
        baseFont == IF Includes(lower, <<"t", "i", "m", "e", "s">>) THEN "TimesRoman"
                    ELSE IF Includes(lower, <<"c", "o", "u", "r", "i", "e", "r">>) THEN "Courier"
                    ELSE "Helvetica"
    IN  IF isBold /\ isItalic THEN
            IF baseFont = "TimesRoman" THEN "TimesRomanBoldItalic"
            ELSE IF baseFont = "Courier" THEN "CourierBoldOblique"
            ELSE "HelveticaBoldOblique"
        ELSE IF isBold THEN
            IF baseFont = "TimesRoman" THEN "TimesRomanBold"
            ELSE IF baseFont = "Courier" THEN "CourierBold"
            ELSE "HelveticaBold"
        ELSE IF isItalic THEN
            IF baseFont = "TimesRoman" THEN "TimesRomanItalic"
            ELSE IF baseFont = "Courier" THEN "CourierOblique"
            ELSE "HelveticaOblique"
        ELSE baseFont

----------------------------------------------------------------------------
(* The font mapping on its own: a font name made of name fragments. *)

FontFragments ==
    { <<"T", "i", "m", "e", "s">>,
      <<"T", "I", "M", "E", "S">>,
      <<"C", "o", "u", "r", "i", "e", "r">>,
      <<"B", "o", "l", "d">>,
      <<"I", "t", "a", "l", "i", "c">>,
      <<"O", "B", "L", "I", "Q", "U", "E">>,
      <<"A", "r", "i", "a", "l">>,
      <<"-">>,
      <<"T", "i">>,
      <<"m", "e", "s">>,
      <<"N", "e", "w">> }

\* Every concatenation of at most MaxFontFragments fragments.
RECURSIVE FontNamesOf(_)
FontNamesOf(n) ==
    IF n = 0 THEN { <<>> }
    ELSE FontNamesOf(n - 1)
            \cup { name \o f : name \in FontNamesOf(n - 1), f \in FontFragments }
FontNames == FontNamesOf(MaxFontFragments)

FontInit ==
    /\ AppIdle
    /\ input \in FontNames
    /\ output = <<"pending">>

FontApply ==
    /\ output = <<"pending">>
    /\ output' = <<"font", getFont(input)>>
    /\ UNCHANGED <<appVars, input>>

FontNext == FontApply

SpecFont == FontInit /\ [][FontNext]_vars

\* The twelve standard variants by family, weight and slant.
StandardVariant(family, bold, italic) ==
    CASE family = "Times" ->
            (IF bold THEN (IF italic THEN "TimesRomanBoldItalic" ELSE "TimesRomanBold")
             ELSE (IF italic THEN "TimesRomanItalic" ELSE "TimesRoman"))
      [] family = "Courier" ->
            (IF bold THEN (IF italic THEN "CourierBoldOblique" ELSE "CourierBold")
             ELSE (IF italic THEN "CourierOblique" ELSE "Courier"))
      [] family = "Helvetica" ->
            (IF bold THEN (IF italic THEN "HelveticaBoldOblique" ELSE "HelveticaBold")
             ELSE (IF italic THEN "HelveticaOblique" ELSE "Helvetica"))

\* word occurs in name when the case of letters is disregarded.
ContainsIgnoringCase(name, word) ==
    \E p \in 1..(Len(name) - Len(word) + 1) :
        \A k \in 1..Len(word) :
            \/ name[p + k - 1] = word[k]
            \/ \E u \in 1..Len(UpperCase) :
                   /\ name[p + k - 1] = UpperCase[u]
                   /\ word[k] = LowerCase[u]

\* C8: getFont yields, for every name, the standard variant whose family is Times
\* if the name contains "times", else Courier if it contains "courier", else
\* Helvetica, bold iff it contains "bold", italic iff it contains "italic" or
\* "oblique", letters compared without regard to case; a name with both "times"
\* and "courier" gives Times and the empty name gives Helvetica regular.
C8_GetFont ==
    output[1] = "font" =>
        LET family == IF ContainsIgnoringCase(input, <<"t", "i", "m", "e", "s">>) THEN "Times"
                      ELSE IF ContainsIgnoringCase(input, <<"c", "o", "u", "r", "i", "e", "r">>) THEN "Courier"
                      ELSE "Helvetica"
            bold == ContainsIgnoringCase(input, <<"b", "o", "l", "d">>)
            italic == \/ ContainsIgnoringCase(input, <<"i", "t", "a", "l", "i", "c">>)
                      \/ ContainsIgnoringCase(input, <<"o", "b", "l", "i", "q", "u", "e">>)
        IN  /\ output[2] = StandardVariant(family, bold, italic)
            /\ input = <<>> => output[2] = "Helvetica"
            /\ (ContainsIgnoringCase(input, <<"t", "i", "m", "e", "s">>)
                    /\ ContainsIgnoringCase(input, <<"c", "o", "u", "r", "i", "e", "r">>))
                  => output[2] \in { StandardVariant("Times", b, s) : b, s \in BOOLEAN }

\* C8's case: a name holding both "Courier" and "TIMES", and "Bold", has been
\* mapped to Times bold.
C8_Witness ==
    /\ output[1] = "font"
    /\ input = <<"C", "o", "u", "r", "i", "e", "r", "T", "I", "M", "E", "S", "B", "o", "l", "d">>
    /\ output[2] = "TimesRomanBold"

----------------------------------------------------------------------------
(* Colour sampling (src/App.tsx:163-202) *)

ViewportScale == 3
BgOffset == 5
DistanceThreshold == 50
LuminanceThreshold == 128

RatAdd(a, b) == Rat(a[1] * b[2] + b[1] * a[2], a[2] * b[2])
RatSub(a, b) == Rat(a[1] * b[2] - b[1] * a[2], a[2] * b[2])
\* Math.floor
Floor(a) == a[1] \div a[2]
Max(a, b) == IF a < b THEN b ELSE a
Min(a, b) == IF a < b THEN a ELSE b

\* rgb(r, g, b) of pdf-lib: three components in 0..1.
Rgb(r, g, b) == <<r, g, b>>
White == Rgb(<<1, 1>>, <<1, 1>>, <<1, 1>>)
Black == Rgb(<<0, 1>>, <<0, 1>>, <<0, 1>>)

\* canvasContext.getImageData(sx, sy, 1, 1).data, first three bytes; a pixel
\* outside the canvas reads as transparent black.
GetImageData(canvas, sx, sy) ==
    IF sx \in 0..(canvas.width - 1) /\ sy \in 0..(canvas.height - 1)
    THEN canvas.data[<<sx, sy>>]
    ELSE <<0, 0, 0>>

\* bgSampleX, bgSampleY (lines 170-171)
BgSamplePoint(canvas, canvasX, canvasY, canvasHeight) ==
    <<Max(0, Floor(RatSub(canvasX, <<BgOffset, 1>>))),
      Max(0, Min(canvas.height - 1,
                 Floor(RatSub(canvasY, RatMul(canvasHeight, <<1, 2>>)))))>>

\* samplePoints (lines 174-178)
SamplePoints(canvasX, canvasY, canvasWidth, canvasHeight) ==
    << <<RatAdd(canvasX, RatMul(canvasWidth, <<1, 2>>)),
         RatSub(canvasY, RatMul(canvasHeight, <<1, 2>>))>>,
       <<RatAdd(canvasX, RatMul(canvasWidth, <<1, 4>>)),
         RatSub(canvasY, RatMul(canvasHeight, <<1, 4>>))>>,
       <<RatAdd(canvasX, RatMul(canvasWidth, <<3, 4>>)),
         RatSub(canvasY, RatMul(canvasHeight, <<3, 4>>))>> >>

\* sx, sy (lines 184-185)
ClampedPoint(canvas, point) ==
    <<Max(0, Min(canvas.width - 1, Floor(point[1]))),
      Max(0, Min(canvas.height - 1, Floor(point[2])))>>

\* diff > 50 (lines 188-190): the square root of an integer exceeds 50 exactly
\* when the integer exceeds 2500.
SquaredDistance(c, bg) ==
    (c[1] - bg[1]) * (c[1] - bg[1]) + (c[2] - bg[2]) * (c[2] - bg[2])
        + (c[3] - bg[3]) * (c[3] - bg[3])

\* A plausible slip: >= in place of >.
DiffersOrEqual(c, bg) == SquaredDistance(c, bg) >= DistanceThreshold * DistanceThreshold

Differs(c, bg) == SquaredDistance(c, bg) > DistanceThreshold * DistanceThreshold

\* The body of the itemsWithStyle callback for one text item (lines 163-202):
\* the colour found and, in order, the pixels it read.
SampleColor(canvas, canvasX, canvasY, itemWidth, itemHeight) ==
    LET canvasWidth == RatMul(itemWidth, <<ViewportScale, 1>>)
        canvasHeight == RatMul(itemHeight, <<ViewportScale, 1>>)
        bgPoint == BgSamplePoint(canvas, canvasX, canvasY, canvasHeight)
        bg == GetImageData(canvas, bgPoint[1], bgPoint[2])
        points == SamplePoints(canvasX, canvasY, canvasWidth, canvasHeight)
        at == [k \in 1..3 |-> ClampedPoint(canvas, points[k])]
        px == [k \in 1..3 |-> GetImageData(canvas, at[k][1], at[k][2])]
        hits == { k \in 1..3 : Differs(px[k], bg) }
        colorFound == hits # {}
        first == IF colorFound THEN CHOOSE k \in hits : \A j \in hits : k <= j ELSE 3
        finalColor ==
            IF colorFound
            THEN Rgb(Rat(px[first][1], 255), Rat(px[first][2], 255), Rat(px[first][3], 255))
            ELSE IF bg[1] + bg[2] + bg[3] < 3 * LuminanceThreshold THEN White
            ELSE Black
    IN  [color |-> finalColor,
         reads |-> <<bgPoint>> \o SubSeq(at, 1, first)]

----------------------------------------------------------------------------
(* The colour sampling on its own: a canvas and a run's place on it. *)

Palette ==
    { <<0, 0, 0>>, <<30, 40, 0>>, <<30, 41, 0>>, <<127, 128, 128>>, <<128, 128, 128>> }

\* Canvases of CanvasCols x CanvasRows pixels whose columns are of one colour.
Canvases ==
    { [width |-> CanvasCols, height |-> CanvasRows,
       data |-> [q \in (0..(CanvasCols - 1)) \X (0..(CanvasRows - 1)) |-> cols[q[1]]]]
      : cols \in [0..(CanvasCols - 1) -> Palette] }

\* Places on, left of, above, right of and below the canvas.
CanvasXs == { <<x, 1>> : x \in {-7, 1, CanvasCols + 4, CanvasCols + 5} }
CanvasYs == { <<y, 1>> : y \in {-3, 1, CanvasRows + 3} }
ItemWidths == { <<0, 1>>, <<1, 1>> }
ItemHeights == { <<1, 1>>, <<2, 1>> }

ColorInit ==
    /\ AppIdle
    /\ input \in [canvas : Canvases, canvasX : CanvasXs, canvasY : CanvasYs,
                  width : ItemWidths, height : ItemHeights]
    /\ output = <<"pending">>

ColorApply ==
    /\ output = <<"pending">>
    /\ output' = <<"sampled",
                   SampleColor(input.canvas, input.canvasX, input.canvasY,
                               input.width, input.height)>>
    /\ UNCHANGED <<appVars, input>>

ColorNext == ColorApply

SpecColor == ColorInit /\ [][ColorNext]_vars

\* The pixel under the k-th candidate point, and under the background point.
CandidatePixel(k) ==
    LET p == ClampedPoint(input.canvas,
                 SamplePoints(input.canvasX, input.canvasY,
                              RatMul(input.width, <<3, 1>>),
                              RatMul(input.height, <<3, 1>>))[k])
    IN  GetImageData(input.canvas, p[1], p[2])
BackgroundPixel ==
    LET p == output[2].reads[1]
    IN  GetImageData(input.canvas, p[1], p[2])
Far(c) == SquaredDistance(c, BackgroundPixel) > 2500
AsRgb(c) == <<Rat(c[1], 255), Rat(c[2], 255), Rat(c[3], 255)>>

\* C6: the run's colour is the first of the candidates centre, 25%/25% point,
\* 75%/75% point whose distance to the background sample is strictly above 50;
\* if there is none it is white when the background's mean of r, g, b is
\* strictly below 128 and black otherwise; a colour always results.
C6_ColorSelection ==
    output[1] = "sampled" =>
        /\ output[2].color =
              IF Far(CandidatePixel(1)) THEN AsRgb(CandidatePixel(1))
              ELSE IF Far(CandidatePixel(2)) THEN AsRgb(CandidatePixel(2))
              ELSE IF Far(CandidatePixel(3)) THEN AsRgb(CandidatePixel(3))
              ELSE IF 3 * 128 > BackgroundPixel[1] + BackgroundPixel[2] + BackgroundPixel[3]
                   THEN <<<<1, 1>>, <<1, 1>>, <<1, 1>>>>
              ELSE <<<<0, 1>>, <<0, 1>>, <<0, 1>>>>
        /\ \A k \in 1..3 : output[2].color[k][1] \in 0..output[2].color[k][2]

\* C6's case: on a black background the centre lies at distance exactly 50 and
\* is passed over, and the 25% point, at a greater distance, gives the colour.
C6_Witness ==
    /\ output[1] = "sampled"
    /\ BackgroundPixel = <<0, 0, 0>>
    /\ CandidatePixel(1) = <<30, 40, 0>>
    /\ CandidatePixel(2) = <<30, 41, 0>>
    /\ output[2].color = AsRgb(<<30, 41, 0>>)

\* C7: every pixel read while sampling a run's colour lies on the canvas:
\* 0 <= x <= width - 1 and 0 <= y <= height - 1, wherever the run is.
C7_ReadsInRange ==
    output[1] = "sampled" =>
        \A k \in 1..Len(output[2].reads) :
            /\ output[2].reads[k][1] \in 0..(input.canvas.width - 1)
            /\ output[2].reads[k][2] \in 0..(input.canvas.height - 1)

----------------------------------------------------------------------------
(* The inputs of handleTranslate: pages of text items, rendered canvases,   *)
(* provider responses.                                                      *)

\* A text item of pdf.js: str, transform[4], transform[5], width, height,
\* fontName.  getTextContent() is called without includeMarkedContent, so every
\* item it yields has a str.
BlankRun ==
    [hasStr |-> TRUE, str |-> <<" ">>, x |-> <<2, 1>>, y |-> <<8, 1>>,
     width |-> <<1, 1>>, height |-> <<12, 1>>, fontName |-> <<"A", "r", "i", "a", "l">>]
\* "a@": a letter and an e-mail address, in a bold serif font, on the page.
RunTimes ==
    [hasStr |-> TRUE, str |-> <<"a", "@">>, x |-> <<4, 1>>, y |-> <<10, 1>>,
     width |-> <<6, 1>>, height |-> <<12, 1>>, fontName |-> <<"T", "i", "m", "e", "s", "-", "B", "o", "l", "d">>]
\* " b": a run of width 0 and height below the floor, right of the page.
RunArial ==
    [hasStr |-> TRUE, str |-> <<" ", "b">>, x |-> <<PageWidth + 10, 1>>, y |-> <<20, 1>>,
     width |-> <<0, 1>>, height |-> <<3, 1>>, fontName |-> <<"A", "r", "i", "a", "l">>]

ItemPool == { BlankRun, RunTimes, RunArial }

\* textContent.items of a page: at most MaxItems items of the pool.
PageContents == UNION { [1..n -> ItemPool] : n \in 0..MaxItems }

\* A rendered page: paper on the left eighth of the canvas, ink right of it.
RenderedCanvas(paper, ink) ==
    [width |-> ViewportScale * PageWidth, height |-> ViewportScale * PageHeight,
     data |-> [q \in (0..(ViewportScale * PageWidth - 1))
                        \X (0..(ViewportScale * PageHeight - 1)) |->
                    IF 8 * q[1] < ViewportScale * PageWidth THEN paper ELSE ink]]

PageCanvases ==
    { RenderedCanvas(<<255, 255, 255>>, <<0, 0, 0>>),
      RenderedCanvas(<<0, 0, 0>>, <<0, 0, 0>>) }

\* The j-th segment of a response: j letters.
Segment(j) == [k \in 1..j |-> "x"]

\* What the provider may answer: 1..MaxSegments segments joined by the sentinel.
Responses == { JoinSentinel([j \in 1..m |-> Segment(j)]) : m \in 1..MaxSegments }

----------------------------------------------------------------------------
(* Helpers of handleTranslate *)

\* redactText of services/redactionService: every e-mail address (here the
\* one character "@") replaced by its placeholder (here "[R]").
RECURSIVE redactText(_)
redactText(text) ==
    IF Len(text) = 0 THEN <<>>
    ELSE (IF Head(text) = "@" THEN <<"[", "R", "]">> ELSE <<Head(text)>>)
            \o redactText(Tail(text))

\* 'str' in item && item.str.trim().length > 0
IsTextItem(item) == item.hasStr /\ ~IsBlank(item.str)

\* tx[4], tx[5] of Util.transform(viewport.transform, item.transform) for an
\* upright page: x scaled, y scaled and flipped.
CanvasXOf(item) == RatMul(<<ViewportScale, 1>>, item.x)
CanvasYOf(canvas, item) ==
    RatSub(<<canvas.height, 1>>, RatMul(<<ViewportScale, 1>>, item.y))

\* The itemsWithStyle callback (lines 158-203): a text item gains a color.
StyleItem(canvas, item) ==
    IF ~IsTextItem(item)
    THEN [item |-> item, hasColor |-> FALSE, color |-> <<>>]
    ELSE [item |-> item, hasColor |-> TRUE,
          color |-> SampleColor(canvas, CanvasXOf(item), CanvasYOf(canvas, item),
                                item.width, item.height).color]

\* A plausible slip: blank strings not filtered out.
OriginalTextsUnfiltered(styled) ==
    [k \in 1..Len(styled) |-> IF styled[k].item.hasStr THEN styled[k].item.str ELSE <<>>]

\* originalTexts (line 205)
OriginalTexts(styled) ==
    LET strs == [k \in 1..Len(styled) |->
                    IF styled[k].item.hasStr THEN styled[k].item.str ELSE <<>>]
        NotBlank(str) == ~IsBlank(str)
    IN  SelectSeq(strs, NotBlank)

\* A plausible slip: the redacted texts computed but the originals sent.
TextsToProcessUnredacted(originalTexts, anon) == originalTexts

\* textsToProcess (lines 208-212)
TextsToProcess(originalTexts, anon) ==
    IF anon THEN [k \in 1..Len(originalTexts) |-> redactText(originalTexts[k])]
    ELSE originalTexts

\* font.widthOfTextAtSize of pdf-lib, every glyph taken half an em wide.
WidthOfTextAtSize(text, size) == RatMul(<<Len(text), 2>>, size)

\* newPage.drawRectangle (lines 232-238)
EraseRect(it) ==
    [op |-> "EraseRect", x |-> it.x,
     y |-> RatSub(it.y, RatMul(it.height, <<1, 4>>)),
     width |-> RatAdd(it.width, <<1, 1>>),
     height |-> RatMul(it.height, <<5, 4>>),
     color |-> White]

\* newPage.drawText (lines 249-269)
PaintText(styled, translatedText, font) ==
    [op |-> "PaintText", text |-> translatedText, x |-> styled.item.x, y |-> styled.item.y,
     font |-> font,
     size |-> FitSize(styled.item.height, styled.item.width,
                      WidthOfTextAtSize(translatedText, styled.item.height)),
     color |-> styled.color]

\* A plausible slip: the cache never consulted.
HasFontNever(fonts, fontType) == FALSE

\* embeddedFonts.has, embeddedFonts.get (lines 244-247)
HasFont(fonts, fontType) == \E k \in 1..Len(fonts) : fonts[k].variant = fontType
FontOf(fonts, fontType) ==
    fonts[CHOOSE k \in 1..Len(fonts) : fonts[k].variant = fontType].handle

\* A plausible slip: with the font at hand, the text drawn before the rectangle
\* that is to clear its place.
RECURSIVE DrawFromPaintFirst(_, _, _, _, _, _)
DrawFromPaintFirst(styled, texts, fonts, k, index, drawn) ==
    IF k > Len(styled)
    THEN [itemIdx |-> k, index |-> index, ops |-> drawn, awaiting |-> FALSE]
    ELSE IF ~(IsTextItem(styled[k].item) /\ styled[k].hasColor)
    THEN DrawFromPaintFirst(styled, texts, fonts, k + 1, index, drawn)
    ELSE IF index < Len(texts)
         THEN IF ~HasFont(fonts, getFont(styled[k].item.fontName))
              THEN [itemIdx |-> k, index |-> index,
                    ops |-> Append(drawn, EraseRect(styled[k].item)), awaiting |-> TRUE]
              ELSE DrawFromPaintFirst(styled, texts, fonts, k + 1, index + 1,
                       drawn \o <<PaintText(styled[k], texts[index + 1],
                                      FontOf(fonts, getFont(styled[k].item.fontName))),
                                  EraseRect(styled[k].item)>>)
         ELSE DrawFromPaintFirst(styled, texts, fonts, k + 1, index,
                                 Append(drawn, EraseRect(styled[k].item)))

\* The for-of loop over itemsWithStyle (lines 227-273) from item k on, up to its
\* end or to the first await of embedFont: where it stops, the index into the
\* translated texts, the operations drawn, and whether it stopped at an await.
RECURSIVE DrawFrom(_, _, _, _, _, _)
DrawFrom(styled, texts, fonts, k, index, drawn) ==
    IF k > Len(styled)
    THEN [itemIdx |-> k, index |-> index, ops |-> drawn, awaiting |-> FALSE]
    ELSE IF ~(IsTextItem(styled[k].item) /\ styled[k].hasColor)
    THEN DrawFrom(styled, texts, fonts, k + 1, index, drawn)
    ELSE LET erased == Append(drawn, EraseRect(styled[k].item))
         IN  IF index < Len(texts)
             THEN IF ~HasFont(fonts, getFont(styled[k].item.fontName))
                  THEN [itemIdx |-> k, index |-> index, ops |-> erased, awaiting |-> TRUE]
                  ELSE DrawFrom(styled, texts, fonts, k + 1, index + 1,
                                Append(erased,
                                       PaintText(styled[k], texts[index + 1],
                                           FontOf(fonts, getFont(styled[k].item.fontName)))))
             ELSE DrawFrom(styled, texts, fonts, k + 1, index, erased)

\* An entry of eventLog: what began, ended or was applied, and for which page
\* (numbered from 1, as pageNum is).
Event(kind, page) == [kind |-> kind, page |-> page]

\* Draw operations were applied to a page: logged once for a stretch of them.
Drew(log, page) ==
    IF log # <<>> /\ log[Len(log)] = Event("draw", page) THEN log
    ELSE Append(log, Event("draw", page))

\* A plausible slip: every source page copied from index 0.
CopyPagesFirst(doc, n) == Append(doc, 0)

\* copyPages(pdfDoc, [i]) and addPage (lines 138-139): the output document, kept
\* as the source index of each of its pages, gains the copy of source page n.
CopyPages(doc, n) == Append(doc, n)

\* A plausible slip: getPage(0), the first page of the output whatever i is.
GetPageFirst(n) == 1

\* newPdfDoc.getPage(i) (line 140): the position in newPdfDoc, counted from 1,
\* of the page the iteration n draws on.
GetPage(n) == n + 1

\* A plausible slip: the failure logged to the console only.
ErrorStatusSilent(e) == <<"null">>

\* The status set by the catch block (line 283); e stands for the message of
\* the failure, told apart by the promise that rejected.
ErrorStatus(e) == <<"error", "An error occurred:", e>>

\* A plausible slip: the handler returns after the last page without saving.
PcAtIterationNoSave(n) == IF n < totalPages THEN "copyPages" ELSE "done"

\* The promise awaited at the head of iteration n of the page loop, or after it.
PcAtIteration(n) == IF n < totalPages THEN "copyPages" ELSE "save"
ProgressAtIteration(n) ==
    IF n < totalPages THEN <<"Processing page", n + 1, totalPages>>
    ELSE <<"Finalizing translated PDF...">>

----------------------------------------------------------------------------
(* The component's handlers and the steps of handleTranslate *)

\* The locals of an invocation that has ended exist no longer: the next event
\* of the component finds none.
NoInvocation ==
    /\ pc' = "idle" /\ totalPages' = 0 /\ i' = 0 /\ newPdfDoc' = <<>> /\ newPage' = 0
    /\ embeddedFonts' = <<>> /\ textContent' = <<>> /\ itemsWithStyle' = <<>>
    /\ textToTranslate' = <<>> /\ translatedTexts' = <<>>
    /\ currentTranslatedIndex' = 0 /\ itemIdx' = 0 /\ ops' = <<>>
    /\ pageLog' = <<>> /\ providerLog' = <<>> /\ embedLog' = <<>>
    /\ eventLog' = <<>>

\* handleFileChange (lines 84-93), offered in the upload view.
HandleFileChange ==
    /\ view = "upload"
    /\ \E isPdf \in BOOLEAN :
          IF isPdf
          THEN pdfFile' = TRUE /\ status' = <<"null">>
          ELSE pdfFile' = FALSE /\ status' = <<"error", "Please select a valid PDF file.">>
    /\ NoInvocation
    /\ UNCHANGED <<translatedPdfBytes, progressMessage, view, anonymize, input, output>>

\* setAnonymize from the checkbox of the upload view (line 414).
SetAnonymize ==
    /\ view = "upload"
    /\ anonymize' = ~anonymize
    /\ NoInvocation
    /\ UNCHANGED <<pdfFile, translatedPdfBytes, status, progressMessage, view,
                   input, output>>

\* handleTranslate up to its first await (lines 112-121); the button that
\* calls it is in the upload view (line 425).
HandleTranslate ==
    /\ view = "upload"
    /\ pdfFile
    /\ view' = "translating"
    /\ status' = <<"null">>
    /\ translatedPdfBytes' = FALSE
    /\ progressMessage' = <<"Starting translation process...">>
    /\ pc' = "arrayBuffer"
    /\ totalPages' = 0 /\ i' = 0 /\ newPdfDoc' = <<>> /\ newPage' = 0
    /\ embeddedFonts' = <<>> /\ textContent' = <<>> /\ itemsWithStyle' = <<>>
    /\ textToTranslate' = <<>> /\ translatedTexts' = <<>>
    /\ currentTranslatedIndex' = 0 /\ itemIdx' = 0 /\ ops' = <<>>
    /\ pageLog' = <<>> /\ providerLog' = <<>> /\ embedLog' = <<>>
    /\ eventLog' = <<>>
    /\ UNCHANGED <<pdfFile, anonymize, input, output>>

\* pdfFile.arrayBuffer() resolves (lines 121-127).
ArrayBufferResolved ==
    /\ pc = "arrayBuffer"
    /\ progressMessage' = <<"Loading PDF document...">>
    /\ pc' = "load"
    /\ UNCHANGED <<pdfFile, translatedPdfBytes, status, view, anonymize, totalPages, i,
                   newPdfDoc, newPage, embeddedFonts, textContent, itemsWithStyle,
                   textToTranslate, translatedTexts, currentTranslatedIndex, itemIdx,
                   ops, pageLog, providerLog, embedLog, eventLog, input, output>>

\* Both documents load (lines 127-128); the document has 1..MaxPages pages.
LoadResolved ==
    /\ pc = "load"
    /\ \E n \in 1..MaxPages : totalPages' = n
    /\ pc' = "create"
    /\ UNCHANGED <<pdfFile, translatedPdfBytes, status, progressMessage, view, anonymize,
                   i, newPdfDoc, newPage, embeddedFonts, textContent, itemsWithStyle,
                   textToTranslate, translatedTexts, currentTranslatedIndex, itemIdx,
                   ops, pageLog, providerLog, embedLog, eventLog, input, output>>

\* PDFDocument.create() resolves; the page loop is entered (lines 128-138).
CreateResolved ==
    /\ pc = "create"
    /\ newPdfDoc' = <<>>
    /\ embeddedFonts' = <<>>
    /\ i' = 0
    /\ pc' = PcAtIteration(0)
    /\ progressMessage' = ProgressAtIteration(0)
    /\ UNCHANGED <<pdfFile, translatedPdfBytes, status, view, anonymize, totalPages,
                   newPage, textContent, itemsWithStyle, textToTranslate,
                   translatedTexts, currentTranslatedIndex, itemIdx, ops, pageLog,
                   providerLog, embedLog, eventLog, input, output>>

\* copyPages resolves: the copy of source page i is appended and becomes
\* newPage = getPage(i) (lines 138-142).  Of the output document the model
\* keeps the source index of every page, and the operations drawn on newPage.
CopyPagesResolved ==
    /\ pc = "copyPages"
    /\ newPdfDoc' = CopyPages(newPdfDoc, i)
    /\ newPage' = GetPage(i)
    /\ ops' = <<>>
    /\ pc' = "getPage"
    /\ UNCHANGED <<pdfFile, translatedPdfBytes, status, progressMessage, view, anonymize,
                   totalPages, i, embeddedFonts, textContent, itemsWithStyle,
                   textToTranslate, translatedTexts, currentTranslatedIndex, itemIdx,
                   pageLog, providerLog, embedLog, eventLog, input, output>>

\* pdfjsDoc.getPage resolves (lines 142-143).
GetPageResolved ==
    /\ pc = "getPage"
    /\ pc' = "getTextContent"
    /\ UNCHANGED <<pdfFile, translatedPdfBytes, status, progressMessage, view, anonymize,
                   totalPages, i, newPdfDoc, newPage, embeddedFonts, textContent,
                   itemsWithStyle, textToTranslate, translatedTexts,
                   currentTranslatedIndex, itemIdx, ops, pageLog, providerLog,
                   embedLog, eventLog, input, output>>

\* getTextContent resolves with the page's items; without items, or without a
\* 2d context for the canvas, the iteration ends here (lines 143-156).
GetTextContentResolved ==
    /\ pc = "getTextContent"
    /\ \E items \in PageContents, canvasContext \in BOOLEAN :
          LET goesOn == Len(items) # 0 /\ canvasContext
              hasText == \E k \in 1..Len(items) : IsTextItem(items[k])
          IN  /\ textContent' = items
              /\ itemsWithStyle' = <<>>
              /\ textToTranslate' = <<>>
              /\ translatedTexts' = <<>>
              /\ currentTranslatedIndex' = 0
              /\ itemIdx' = 0
              /\ pageLog' = Append(pageLog, [hasText |-> hasText, context |-> goesOn])
              /\ eventLog' =
                    IF goesOn THEN Append(eventLog, Event("renderBegin", i + 1))
                    ELSE eventLog
              /\ i' = IF goesOn THEN i ELSE i + 1
              /\ pc' = IF goesOn THEN "render" ELSE PcAtIteration(i + 1)
              /\ progressMessage' =
                    IF goesOn THEN progressMessage ELSE ProgressAtIteration(i + 1)
    /\ UNCHANGED <<pdfFile, translatedPdfBytes, status, view, anonymize, totalPages,
                   newPdfDoc, newPage, embeddedFonts, ops, providerLog, embedLog,
                   input, output>>

\* The render resolves: colours are sampled, the texts are collected, redacted
\* if asked, joined, and the provider is called (lines 156-222); a page without
\* a text that is not blank ends the iteration.
RenderResolved ==
    /\ pc = "render"
    /\ \E canvas \in PageCanvases :
          LET styled == [k \in 1..Len(textContent) |-> StyleItem(canvas, textContent[k])]
              originalTexts == OriginalTexts(styled)
              goesOn == Len(originalTexts) # 0
          IN  /\ itemsWithStyle' = styled
              /\ textToTranslate' =
                    IF goesOn THEN JoinSentinel(TextsToProcess(originalTexts, anonymize))
                    ELSE <<>>
              /\ providerLog' = IF goesOn THEN Append(providerLog, i + 1) ELSE providerLog
              /\ eventLog' =
                    IF goesOn
                    THEN eventLog \o <<Event("renderEnd", i + 1), Event("callBegin", i + 1)>>
                    ELSE Append(eventLog, Event("renderEnd", i + 1))
              /\ i' = IF goesOn THEN i ELSE i + 1
              /\ pc' = IF goesOn THEN "translate" ELSE PcAtIteration(i + 1)
              /\ progressMessage' =
                    IF goesOn THEN <<"Translating text for page", i + 1>>
                    ELSE ProgressAtIteration(i + 1)
    /\ UNCHANGED <<pdfFile, translatedPdfBytes, status, view, anonymize, totalPages,
                   newPdfDoc, newPage, embeddedFonts, textContent, translatedTexts,
                   currentTranslatedIndex, itemIdx, ops, pageLog, embedLog,
                   input, output>>

\* The draw loop has run from item k: its state is stored, and the handler is
\* suspended on embedFont or goes to the next iteration.
LoopRan(run, fonts) ==
    /\ itemIdx' = run.itemIdx
    /\ currentTranslatedIndex' = run.index
    /\ ops' = run.ops
    /\ embedLog' =
          IF run.awaiting
          THEN Append(embedLog, getFont(itemsWithStyle[run.itemIdx].item.fontName))
          ELSE embedLog
    /\ eventLog' =
          LET answered == IF pc = "translate"
                          THEN Append(eventLog, Event("callEnd", i + 1))
                          ELSE eventLog
          IN  IF run.ops # ops THEN Drew(answered, newPage) ELSE answered
    /\ i' = IF run.awaiting THEN i ELSE i + 1
    /\ pc' = IF run.awaiting THEN "embedFont" ELSE PcAtIteration(i + 1)
    /\ progressMessage' =
          IF run.awaiting THEN progressMessage ELSE ProgressAtIteration(i + 1)

\* The provider answers: the answer is split and the draw loop starts
\* (lines 219-273).
TranslateResolved ==
    /\ pc = "translate"
    /\ \E translatedFullText \in Responses :
          /\ translatedTexts' = SplitSentinel(translatedFullText)
          /\ LoopRan(DrawFrom(itemsWithStyle, SplitSentinel(translatedFullText),
                              embeddedFonts, 1, 0, ops),
                     embeddedFonts)
    /\ UNCHANGED <<pdfFile, translatedPdfBytes, status, view, anonymize, totalPages,
                   newPdfDoc, newPage, embeddedFonts, textContent, itemsWithStyle,
                   textToTranslate, pageLog, providerLog, input, output>>

\* embedFont resolves: the font enters the cache, the item's text is drawn and
\* the draw loop goes on (lines 245-273).
EmbedFontResolved ==
    /\ pc = "embedFont"
    /\ LET fontType == getFont(itemsWithStyle[itemIdx].item.fontName)
           fonts == Append(embeddedFonts,
                           [variant |-> fontType, handle |-> Len(embedLog)])
           painted == Append(ops,
                             PaintText(itemsWithStyle[itemIdx],
                                       translatedTexts[currentTranslatedIndex + 1],
                                       FontOf(fonts, fontType)))
       IN  /\ embeddedFonts' = fonts
           /\ LoopRan(DrawFrom(itemsWithStyle, translatedTexts, fonts, itemIdx + 1,
                               currentTranslatedIndex + 1, painted),
                      fonts)
    /\ UNCHANGED <<pdfFile, translatedPdfBytes, status, view, anonymize, totalPages,
                   newPdfDoc, newPage, textContent, itemsWithStyle, textToTranslate,
                   translatedTexts, pageLog, providerLog, input, output>>

\* save resolves: the bytes are published and the result is shown
\* (lines 277-279, 286).
SaveResolved ==
    /\ pc = "save"
    /\ translatedPdfBytes' = TRUE
    /\ view' = "result"
    /\ progressMessage' = <<"">>
    /\ pc' = "done"
    /\ UNCHANGED <<pdfFile, status, anonymize, totalPages, i, newPdfDoc, newPage,
                   embeddedFonts, textContent, itemsWithStyle, textToTranslate,
                   translatedTexts, currentTranslatedIndex, itemIdx, ops, pageLog,
                   providerLog, embedLog, eventLog, input, output>>

Awaited ==
    { "arrayBuffer", "load", "create", "copyPages", "getPage", "getTextContent",
      "render", "translate", "embedFont", "save" }

\* The awaited promise rejects: catch and finally (lines 281-287).
Rejected ==
    /\ pc \in Awaited
    /\ status' = ErrorStatus(pc)
    /\ view' = "upload"
    /\ progressMessage' = <<"">>
    /\ pc' = "done"
    /\ UNCHANGED <<pdfFile, translatedPdfBytes, anonymize, totalPages, i, newPdfDoc,
                   newPage, embeddedFonts, textContent, itemsWithStyle,
                   textToTranslate, translatedTexts, currentTranslatedIndex, itemIdx,
                   ops, pageLog, providerLog, embedLog, eventLog, input, output>>

\* handleReset (lines 290-297), offered in the result view.
HandleReset ==
    /\ view = "result"
    /\ pdfFile' = FALSE
    /\ translatedPdfBytes' = FALSE
    /\ status' = <<"null">>
    /\ progressMessage' = <<"">>
    /\ view' = "upload"
    /\ NoInvocation
    /\ UNCHANGED <<anonymize, input, output>>

Init ==
    /\ AppIdle
    /\ input = <<>>
    /\ output = <<>>

Next ==
    \/ HandleFileChange
    \/ SetAnonymize
    \/ HandleTranslate
    \/ ArrayBufferResolved
    \/ LoadResolved
    \/ CreateResolved
    \/ CopyPagesResolved
    \/ GetPageResolved
    \/ GetTextContentResolved
    \/ RenderResolved
    \/ TranslateResolved
    \/ EmbedFontResolved
    \/ SaveResolved
    \/ Rejected
    \/ HandleReset

Spec == Init /\ [][Next]_vars

\* The promise the handler is suspended on is settled: it resolves or rejects.
Settled ==
    \/ Rejected
    \/ ArrayBufferResolved
    \/ LoadResolved
    \/ CreateResolved
    \/ CopyPagesResolved
    \/ GetPageResolved
    \/ GetTextContentResolved
    \/ RenderResolved
    \/ TranslateResolved
    \/ EmbedFontResolved
    \/ SaveResolved

\* The component with every awaited promise settled in the end.  The handler
\* awaits one promise at a time, so one fairness condition stands for them all.
SpecLive == Init /\ [][Next]_vars /\ WF_vars(Settled)

----------------------------------------------------------------------------
(* Properties of handleTranslate *)

\* The runs of the page in hand whose trimmed text is not empty, in order.
SurvivingRuns == SelectSeq(textContent, LAMBDA item : item.hasStr /\ ~IsBlank(item.str))

\* The operations of one kind drawn on newPage, in order.
Erased == SelectSeq(ops, LAMBDA o : o.op = "EraseRect")
Painted == SelectSeq(ops, LAMBDA o : o.op = "PaintText")

\* textContent, itemsWithStyle and ops are those of one page: the page newPage
\* has had its text extracted.
PageInHand == newPage # 0 /\ newPage = Len(pageLog)

\* The provider has answered for the page in hand.
Answered == PageInHand /\ translatedTexts # <<>>

\* The draw loop of the page in hand has run to its end.
LoopComplete == Answered /\ itemIdx = Len(itemsWithStyle) + 1

\* C1: when a page's draw loop has ended, with n surviving runs and m segments
\* in the answer, the page holds exactly min(n, m) EraseRect and as many
\* PaintText operations; a run without a translated text has no operation.
C1_PairsOnly ==
    LoopComplete =>
        /\ Len(Erased) = Min(Len(SurvivingRuns), Len(translatedTexts))
        /\ Len(Painted) = Len(Erased)

\* C2: when the number of segments of the answer differs from the number of
\* texts sent for the page, no PaintText is applied for that page and the run
\* does not go on to a result.
C2_MismatchFails ==
    (Answered /\ Len(translatedTexts) # Len(SurvivingRuns)) =>
        /\ Painted = <<>>
        /\ ~LoopComplete

\* Calls of the provider made for page p in this invocation.
CallsFor(p) == Cardinality({ k \in 1..Len(providerLog) : providerLog[k] = p })

\* C9 as stated: in a run that ends with a result, the provider has been called
\* once for every page with a surviving run and never for any other page.
C9_OneCallPerTextPageAsStated ==
    view = "result" =>
        \A p \in 1..Len(pageLog) :
            CallsFor(p) = IF pageLog[p].hasText THEN 1 ELSE 0

\* C9, amended: the provider is called at most once per page and only for a page
\* that has a surviving run and got its canvas context; every page whose
\* iteration has ended was called for exactly when it has both; a run that ends
\* with a result has been through every page; a page without surviving runs
\* holds no draw operation, and while the handler runs no error is set.
C9_OneCallPerTextPage ==
    /\ \A k \in 1..Len(providerLog) : providerLog[k] \in 1..Len(pageLog)
    /\ \A p \in 1..Len(pageLog) :
          /\ CallsFor(p) <= 1
          /\ CallsFor(p) = 1 => (pageLog[p].hasText /\ pageLog[p].context)
          /\ p <= i => (CallsFor(p) = 1 <=> (pageLog[p].hasText /\ pageLog[p].context))
    /\ view = "result" => (i = totalPages /\ Len(pageLog) = totalPages)
    /\ (PageInHand /\ ~pageLog[newPage].hasText) => ops = <<>>
    /\ pc \in Awaited => status = <<"null">>

\* C9's case: a run of two pages has ended with a result; the first page had
\* only a blank run and was passed over, the second was translated by one call.
C9_Witness ==
    /\ view = "result"
    /\ Len(pageLog) = 2
    /\ pageLog[1] = [hasText |-> FALSE, context |-> TRUE]
    /\ pageLog[2] = [hasText |-> TRUE, context |-> TRUE]
    /\ providerLog = <<2>>

\* The provider has been called for the page in hand.
Called == PageInHand /\ providerLog # <<>> /\ providerLog[Len(providerLog)] = newPage

\* C10: with anonymize set, the string given to the provider is the sentinel-join
\* of redactText over the page's surviving texts in order; and, whatever
\* anonymize is, every erase rectangle and every painted text lies where its
\* run's geometry alone puts it, in a colour sampled from the canvas for that
\* run: the redaction reaches neither.
C10_RedactionTextOnly ==
    /\ (Called /\ anonymize) =>
          textToTranslate =
              Join([k \in 1..Len(SurvivingRuns) |-> redactText(SurvivingRuns[k].str)],
                   <<" ", "|", "|", "|", " ">>)
    /\ PageInHand =>
          /\ \A j \in 1..Len(Erased) :
                /\ j <= Len(SurvivingRuns)
                /\ Erased[j].x = SurvivingRuns[j].x
                /\ Erased[j].y = RatSub(SurvivingRuns[j].y,
                                        RatDiv(SurvivingRuns[j].height, <<4, 1>>))
                /\ Erased[j].width = RatAdd(SurvivingRuns[j].width, <<1, 1>>)
                /\ Erased[j].height = RatAdd(SurvivingRuns[j].height,
                                             RatDiv(SurvivingRuns[j].height, <<4, 1>>))
          /\ \A j \in 1..Len(Painted) :
                /\ j <= Len(SurvivingRuns)
                /\ Painted[j].x = SurvivingRuns[j].x
                /\ Painted[j].y = SurvivingRuns[j].y
                /\ \E canvas \in PageCanvases :
                      Painted[j].color =
                          SampleColor(canvas, CanvasXOf(SurvivingRuns[j]),
                                      CanvasYOf(canvas, SurvivingRuns[j]),
                                      SurvivingRuns[j].width,
                                      SurvivingRuns[j].height).color

\* C10's case: with anonymize set, a page with the runs "a@" and " b" has been
\* sent as "a[R] |||  b" and its first run erased and painted.
C10_Witness ==
    /\ anonymize
    /\ Called
    /\ textToTranslate =
          <<"a", "[", "R", "]", " ", "|", "|", "|", " ", " ", "b">>
    /\ Len(Erased) >= 1
    /\ Len(Painted) >= 1

----------------------------------------------------------------------------
(* Failure of the provider, order of the operations, order of the pages *)

\* The last entry of eventLog.
LastEvent == eventLog[Len(eventLog)]

\* Entries of eventLog of one kind for page p.
EventsOf(kind, p) == { k \in 1..Len(eventLog) : eventLog[k] = Event(kind, p) }

\* The invocation has ended on a provider call that began and never ended.
ProviderFailed ==
    pc = "done" /\ eventLog # <<>> /\ LastEvent.kind = "callBegin"

\* C11: when the provider call for page p has failed, the provider was called
\* once for p and for no page after it, page p holds no draw operation, status
\* is the error with the provider's failure in it, the view is 'upload', the
\* progress message is cleared and no bytes are published; and the invocation
\* that ended takes no further step: its logs change no more until the next
\* event of the component starts afresh.
C11_ProviderFailure ==
    /\ [](ProviderFailed =>
            /\ CallsFor(LastEvent.page) = 1
            /\ providerLog[Len(providerLog)] = LastEvent.page
            /\ \A k \in 1..Len(providerLog) : providerLog[k] <= LastEvent.page
            /\ EventsOf("draw", LastEvent.page) = {}
            /\ newPage = LastEvent.page /\ ops = <<>>
            /\ status = <<"error", "An error occurred:", "translate">>
            /\ view = "upload"
            /\ progressMessage = <<"">>
            /\ translatedPdfBytes = FALSE)
    /\ [][ProviderFailed =>
            \/ pc' = "done" /\ providerLog' = providerLog /\ eventLog' = eventLog
                 /\ ops' = ops /\ translatedPdfBytes' = translatedPdfBytes
            \/ pc' \in {"idle", "arrayBuffer"} /\ providerLog' = <<>>]_vars

\* C11's case: the provider call for page 2 has failed after page 1 was drawn.
C11_Witness ==
    /\ ProviderFailed
    /\ LastEvent.page = 2
    /\ EventsOf("draw", 1) # {}
    /\ status[1] = "error"
    /\ view = "upload"

\* The styled items of the page in hand that are runs with text, in order.
StyledSurviving == SelectSeq(itemsWithStyle, LAMBDA st : IsTextItem(st.item))

\* Among the first q operations of the page in hand, those of one kind.
CountOps(kind, q) == Cardinality({ k \in 1..q : ops[k].op = kind })

\* C12: on the page in hand every rectangle is that of the next surviving run
\* in the page's order, so that the q-th operation belongs to run
\* r = CountOps("EraseRect", q); a PaintText comes right after the EraseRect of
\* its own run, is the r-th PaintText of the page, and draws the r-th segment
\* of the split answer at the baseline of run r in the colour sampled for run r.
\* (Which runs get a PaintText at all is the matter of C1.)
C12_DrawOrder ==
    PageInHand =>
        \A q \in 1..Len(ops) :
            LET r == CountOps("EraseRect", q)
            IN  /\ r \in 1..Len(SurvivingRuns)
                /\ Len(StyledSurviving) = Len(SurvivingRuns)
                /\ StyledSurviving[r].item = SurvivingRuns[r]
                /\ IF ops[q].op = "EraseRect"
                   THEN /\ ops[q].x = SurvivingRuns[r].x
                        /\ ops[q].y = RatSub(SurvivingRuns[r].y,
                                             RatDiv(SurvivingRuns[r].height, <<4, 1>>))
                        /\ ops[q].width = RatAdd(SurvivingRuns[r].width, <<1, 1>>)
                   ELSE /\ ops[q].op = "PaintText"
                        /\ q > 1
                        /\ ops[q - 1].op = "EraseRect"
                        /\ CountOps("PaintText", q) = r
                        /\ r <= Len(translatedTexts)
                        /\ ops[q].text = translatedTexts[r]
                        /\ ops[q].x = SurvivingRuns[r].x
                        /\ ops[q].y = SurvivingRuns[r].y
                        /\ ops[q].color = StyledSurviving[r].color

\* C12's case: a page with the runs "a@" and " b", sampled black and white, has
\* been answered with two segments or more and drawn to the end: rectangle and
\* first segment for "a@", then rectangle and second segment for " b".
C12_Witness ==
    /\ LoopComplete
    /\ textContent = <<RunTimes, RunArial>>
    /\ Len(ops) = 4
    /\ ops[2].op = "PaintText" /\ ops[2].text = Segment(1) /\ ops[2].color = Black
    /\ ops[4].op = "PaintText" /\ ops[4].text = Segment(2) /\ ops[4].color = White
    /\ ops[4].x = RunArial.x

\* The place of a kind of event within the iteration of its page.
Rank(kind) ==
    CASE kind = "renderBegin" -> 1
      [] kind = "renderEnd" -> 2
      [] kind = "callBegin" -> 3
      [] kind = "callEnd" -> 4
      [] kind = "draw" -> 5

\* Event a comes strictly before event b in the order of pages and, within a
\* page, in the order render, provider call, draw.
Precedes(a, b) ==
    \/ a.page < b.page
    \/ a.page = b.page /\ Rank(a.kind) < Rank(b.kind)

\* C13: whatever has happened so far happened in the order of the pages and,
\* for one page, in the order: render begun, render ended, provider call begun,
\* provider call ended, draw operations applied.  So the render and the provider
\* call of p have ended before p is drawn on, and nothing of page p + 1 begins
\* before the last draw operation of p.  Draw operations are applied to the page
\* of the running iteration only, and a page holds operations exactly when they
\* are logged for it.
C13_PageOrder ==
    /\ \A j, k \in 1..Len(eventLog) : j < k => Precedes(eventLog[j], eventLog[k])
    /\ \A k \in 1..Len(eventLog) :
          /\ eventLog[k].page \in 1..totalPages
          /\ eventLog[k].page <= Len(pageLog)
          /\ eventLog[k].page <= i + 1
    /\ newPage # 0 =>
          /\ (ops # <<>>) <=> (EventsOf("draw", newPage) # {})
          /\ ops # <<>> =>
                /\ EventsOf("renderEnd", newPage) # {}
                /\ EventsOf("callEnd", newPage) # {}
    /\ pc \in {"translate", "embedFont"} => newPage = i + 1

\* C13's case: a run of two pages has ended with a result, both pages rendered,
\* translated and drawn on, the first wholly before the second.
C13_Witness ==
    /\ view = "result"
    /\ eventLog = <<Event("renderBegin", 1), Event("renderEnd", 1),
                    Event("callBegin", 1), Event("callEnd", 1), Event("draw", 1),
                    Event("renderBegin", 2), Event("renderEnd", 2),
                    Event("callBegin", 2), Event("callEnd", 2), Event("draw", 2)>>
    /\ ops # <<>>

----------------------------------------------------------------------------
(* Termination of handleTranslate *)

\* The two ways an invocation ends.
Done ==
    /\ pc = "done" /\ view = "result" /\ translatedPdfBytes
    /\ progressMessage = <<"">>
Failed ==
    /\ pc = "done" /\ view = "upload" /\ status # <<"null">> /\ status[1] = "error"
    /\ progressMessage = <<"">>

\* C14: with every awaited promise settled in the end, an invocation that has
\* started (view 'translating') ends as Done or as Failed; while it runs it is
\* suspended on one of its promises; it leaves 'translating' only into Done or
\* Failed; and a promise that rejects, at whatever step of whatever page, takes
\* it to Failed at once.
C14_Terminates ==
    /\ (view = "translating") ~> (Done \/ Failed)
    /\ [](view = "translating" <=> pc \in Awaited)
    /\ [][(view = "translating" /\ view' # "translating") => (Done' \/ Failed')]_vars
    /\ [][(pc \in Awaited /\ pc' = "done" /\ ~translatedPdfBytes') => Failed']_vars

\* C14's case: on the second page, with the first drawn, embedFont has rejected
\* and the invocation has ended as Failed.
C14_Witness ==
    /\ Failed
    /\ status = <<"error", "An error occurred:", "embedFont">>
    /\ i = 1
    /\ EventsOf("draw", 1) # {}
    /\ translatedPdfBytes = FALSE

----------------------------------------------------------------------------
(* The cache of embedded fonts *)

\* The members of StandardFonts that getFont can return.
FontVariants ==
    { StandardVariant(family, bold, italic) :
        family \in {"Times", "Courier", "Helvetica"}, bold \in BOOLEAN, italic \in BOOLEAN }

\* C15: in one invocation embedFont is asked for a variant at most once, so at
\* most twelve times; the cache holds one entry per variant, each with the
\* handle its own embedFont call gave; every PaintText of the page in hand is
\* drawn with the cached handle of the variant getFont gives for its run's font
\* name; and from one step to the next the cache keeps its entries as they are
\* and gains one at most, until the next invocation starts with an empty one.
C15_FontCache ==
    /\ [](/\ Cardinality(FontVariants) = 12
          /\ Len(embedLog) <= 12
          /\ \A k \in 1..Len(embedLog) : embedLog[k] \in FontVariants
          /\ \A j, k \in 1..Len(embedLog) : embedLog[j] = embedLog[k] => j = k
          /\ \A j, k \in 1..Len(embeddedFonts) :
                embeddedFonts[j].variant = embeddedFonts[k].variant => j = k
          /\ \A k \in 1..Len(embeddedFonts) :
                /\ embeddedFonts[k].handle \in 1..Len(embedLog)
                /\ embedLog[embeddedFonts[k].handle] = embeddedFonts[k].variant
          /\ PageInHand =>
                \A j \in 1..Len(Painted) :
                    \E k \in 1..Len(embeddedFonts) :
                        /\ embeddedFonts[k].variant = getFont(SurvivingRuns[j].fontName)
                        /\ embeddedFonts[k].handle = Painted[j].font)
    /\ [][\/ embeddedFonts' = embeddedFonts
          \/ /\ Len(embeddedFonts') = Len(embeddedFonts) + 1
             /\ SubSeq(embeddedFonts', 1, Len(embeddedFonts)) = embeddedFonts
             /\ pc = "embedFont"
          \/ /\ embeddedFonts' = <<>>
             /\ pc' \in {"idle", "arrayBuffer"}]_vars

\* C15's case: a run of two pages, each with the runs "a@" in Times-Bold and
\* " b" in Arial, has ended with a result: two fonts were embedded, both for the
\* first page, and the second page was painted with the cached handles.
C15_Witness ==
    /\ view = "result"
    /\ providerLog = <<1, 2>>
    /\ embedLog = <<"TimesRomanBold", "Helvetica">>
    /\ embeddedFonts = <<[variant |-> "TimesRomanBold", handle |-> 1],
                         [variant |-> "Helvetica", handle |-> 2]>>
    /\ EventsOf("draw", 1) # {}
    /\ Len(Painted) = 2
    /\ Painted[1].font = 1
    /\ Painted[2].font = 2

----------------------------------------------------------------------------
(* The pages of the output document *)

\* The iteration i has copied its page and not yet ended.
InIteration == pc \in {"getPage", "getTextContent", "render", "translate", "embedFont"}

\* C16: the output document holds the copies of the source pages 0, 1, ... in
\* order; at the head of iteration i it has i pages; from the copy on and until
\* the iteration ends it has i + 1, and the page the iteration draws on is the
\* last of them, the copy of source page i, whether or not earlier iterations
\* ended early; every page whose iteration has come to its text has its copy;
\* and a run that ends with a result has as many pages as the source.
C16_PagesAligned ==
    /\ \A k \in 1..Len(newPdfDoc) : newPdfDoc[k] = k - 1
    /\ pc = "copyPages" => Len(newPdfDoc) = i /\ i < totalPages
    /\ InIteration =>
          /\ Len(newPdfDoc) = i + 1
          /\ newPage = Len(newPdfDoc)
          /\ newPdfDoc[newPage] = i
    /\ Len(pageLog) <= Len(newPdfDoc)
    /\ ops # <<>> => (newPage \in 1..Len(newPdfDoc) /\ newPdfDoc[newPage] = newPage - 1)
    /\ pc = "save" => Len(newPdfDoc) = totalPages /\ i = totalPages
    /\ view = "result" => Len(newPdfDoc) = totalPages

\* C16's case: of two pages the first had no text item, or no canvas context,
\* and its iteration ended early; the second was drawn on as the copy of source page 1,
\* and the run ended with a result of two pages.
C16_Witness ==
    /\ view = "result"
    /\ totalPages = 2
    /\ newPdfDoc = <<0, 1>>
    /\ pageLog[1].context = FALSE
    /\ newPage = 2
    /\ ops # <<>>

====
